---- MODULE Spec2Model ----
(***************************************************************************)
(* Browser-side interaction layer of FitLog.                               *)
(*                                                                         *)
(*   edit.js    reorderable exercise table of the plan editor: drag and    *)
(*              drop of rows, hidden position fields, row removal and the  *)
(*              combined save-then-add submission.                         *)
(*   record.js  clamp of the "sets" inputs of the recording page.          *)
(*   index.js   plan list of the start page: record button, deletion and   *)
(*              creation of plans.                                         *)
(*                                                                         *)
(* Every event handler is one action.  An async handler is one action per  *)
(* run between two awaits: the part up to the fetch, and the continuation  *)
(* that runs when the fetch settles.  The user, the network and the        *)
(* browser's navigation are the environment: they choose the event, its    *)
(* target and coordinates, the dialog answer, the way a request settles    *)
(* and the moment a requested reload replaces the page.                    *)
(***************************************************************************)
EXTENDS Integers, Sequences, FiniteSets

\* ------------------------------------------------------------ bounds
NumRows == 3          \* rows tr.dnd-row rendered into the table
MaxRemoveReqs == 1    \* removal requests in flight at once
MaxFlows == 2         \* save-then-add runs in flight at once
MaxTyped == 150       \* largest number typed into an input
MinTyped == 5         \* the smallest number typed is -MinTyped
NumPlans == 2         \* plans offered by the list of the start page
MaxPlanReqs == 1      \* deletion and creation requests in flight at once

\* ------------------------------------------------------------ values
NULL == 0
Outcomes == {"ok", "fail", "neterr"}     \* res.ok, !res.ok, fetch rejected

VARIABLES
    rendered,      \* ids of the rows the server rendered into the table
    rows,          \* tbody's tr.dnd-row children, top to bottom
    pos,           \* value of each row's input[name="position[]"]
    cls,           \* rows whose classList holds "is-dragging"
    dragEl,        \* edit.js: let dragEl
    removeUrl,     \* table.dataset.removeUrl is set
    removeReqs,    \* exercise ids of the removal fetches in flight
    flows,         \* save-then-add runs suspended at an await
    addBtnDisabled,\* addBtn.disabled
    last,          \* the handler run last and what it showed the user
    reloadCalls,   \* handlers that called location.reload() on this page
    unloaded,      \* the reload replaced the page
    input,         \* record.js: the input element of the last input event
    sel,           \* index.js: list.value, NULL for the empty string
    btnRecordDisabled, \* btnRecord.disabled
    newSessionUrl, \* btnRecord.dataset.newSessionUrl is set
    createUrl,     \* btnAdd.dataset.createUrl is set
    planReqs,      \* deletion and creation fetches in flight
    nav            \* the address last assigned to window.location.href

ixVars == <<sel, btnRecordDisabled, newSessionUrl, createUrl, planReqs, nav>>

editVars == <<rendered, rows, pos, cls, dragEl, removeUrl, removeReqs, flows,
              addBtnDisabled, input>>

vars == <<rendered, rows, pos, cls, dragEl, removeUrl, removeReqs, flows,
          addBtnDisabled, last, reloadCalls, unloaded, input, ixVars>>

\* a handler run: ev names the handler, out is none, alert, reload or uncaught
Ran(ev, o) == [ev |-> ev, out |-> o]

Targets == rendered \cup {NULL}          \* NULL: the event target is in no row

\* ------------------------------------------------------------ helpers
IndexOf(rs, r) == CHOOSE i \in 1..Len(rs) : rs[i] = r

Without(rs, r) == SelectSeq(rs, LAMBDA x : x # r)

RemoveAt(s, i) == SubSeq(s, 1, i - 1) \o SubSeq(s, i + 1, Len(s))

\* tbody.insertBefore(node, ref): node leaves its place and sits before ref
insertBefore(rs, node, ref) ==
    LET rest == Without(rs, node)
        k == IndexOf(rest, ref)
    IN SubSeq(rest, 1, k - 1) \o <<node>> \o SubSeq(rest, k, Len(rest))

\* variant: a copy of the node is appended and the node stays where it was
appendChild_copy(rs, node) == rs \o <<node>>

\* tbody.appendChild(node): node leaves its place and becomes the last child
appendChild(rs, node) == Without(rs, node) \o <<node>>

\* variant: the 0-based index is stored
updatePositions_zeroBased(rs, p) ==
    [r \in DOMAIN p |->
        IF \E i \in 1..Len(rs) : rs[i] = r
        THEN (CHOOSE i \in 1..Len(rs) : rs[i] = r) - 1 ELSE p[r]]

\* pos.value = i + 1 for the i-th row (0-based) of the table
updatePositions(rs, p) ==
    [r \in DOMAIN p |->
        IF \E i \in 1..Len(rs) : rs[i] = r THEN IndexOf(rs, r) ELSE p[r]]

\* ------------------------------------------------------------ geometry
\* getBoundingClientRect(): rows are stacked from the top of the table body,
\* each with its own height; the dragged row keeps its place in the layout.
RowHeight(r) == 1 + (r % 2)

RECURSIVE SumHeights(_, _)
SumHeights(rs, n) == IF n = 0 THEN 0 ELSE RowHeight(rs[n]) + SumHeights(rs, n - 1)

BoxTop(rs, r) == SumHeights(rs, IndexOf(rs, r) - 1)

InitialRows(n) == [i \in 1..n |-> i]

MaxY == SumHeights(InitialRows(NumRows), NumRows)
Ys == 0..MaxY                             \* e.clientY

\* twice (y - box.top - box.height / 2), to stay in the integers
Offset2(rs, r, y) == 2 * y - 2 * BoxTop(rs, r) - RowHeight(r)

NegInf == -1000                           \* Number.NEGATIVE_INFINITY

\* ------------------------------------------------------------ edit.js
\* variant: the test offset < 0 is missing
Closer_noSign(closest, child, rs, y) ==
    LET offset == Offset2(rs, child, y)
    IN IF offset > closest.offset
       THEN [offset |-> offset, element |-> child]
       ELSE closest

\* the reduce callback of getDragAfterElement
Closer(closest, child, rs, y) ==
    LET offset == Offset2(rs, child, y)
    IN IF offset < 0 /\ offset > closest.offset
       THEN [offset |-> offset, element |-> child]
       ELSE closest

RECURSIVE reduce(_, _, _, _)
reduce(els, closest, rs, y) ==
    IF els = <<>> THEN closest
    ELSE reduce(Tail(els), Closer(closest, Head(els), rs, y), rs, y)

\* the row to insert before, NULL (undefined) when there is none
getDragAfterElement(rs, flagged, y) ==
    LET els == SelectSeq(rs, LAMBDA r : r \notin flagged)
    IN reduce(els, [offset |-> NegInf, element |-> NULL], rs, y).element

\* tbody.querySelector("tr.dnd-row.is-dragging"): the first flagged row
Dragging(rs, flagged) ==
    IF \E i \in 1..Len(rs) : rs[i] \in flagged
    THEN rs[CHOOSE i \in 1..Len(rs) :
                /\ rs[i] \in flagged
                /\ \A j \in 1..(i - 1) : rs[j] \notin flagged]
    ELSE NULL

\* the position[] values of the edit form, in document order
FormPositions(rs, p) == [i \in 1..Len(rs) |-> p[rs[i]]]

Alive == ~unloaded

DragStart(t) ==
    /\ Alive
    /\ IF t = NULL
       THEN UNCHANGED <<cls, dragEl>>
       ELSE /\ dragEl' = t
            /\ cls' = cls \cup {t}
    /\ last' = Ran("dragstart", "none")
    /\ UNCHANGED <<rendered, rows, pos, removeUrl, removeReqs, flows,
                   addBtnDisabled, reloadCalls, unloaded, input, ixVars>>

\* variant: the drop also moves the dragged row to the end of the table
DragEnd_dropsLast ==
    /\ Alive
    /\ cls' = IF dragEl # NULL THEN cls \ {dragEl} ELSE cls
    /\ dragEl' = NULL
    /\ rows' = IF dragEl # NULL THEN appendChild(rows, dragEl) ELSE rows
    /\ pos' = updatePositions(rows', pos)
    /\ last' = Ran("dragend", "none")
    /\ UNCHANGED <<rendered, removeUrl, removeReqs, flows, addBtnDisabled,
                   reloadCalls, unloaded, input, ixVars>>

\* variant: the class is-dragging is not taken off the row
DragEnd_keepsFlag ==
    /\ Alive
    /\ dragEl' = NULL
    /\ pos' = updatePositions(rows, pos)
    /\ last' = Ran("dragend", "none")
    /\ UNCHANGED <<rendered, rows, cls, removeUrl, removeReqs, flows, addBtnDisabled,
                   reloadCalls, unloaded, input, ixVars>>

DragEnd ==
    /\ Alive
    /\ cls' = IF dragEl # NULL THEN cls \ {dragEl} ELSE cls
    /\ dragEl' = NULL
    /\ pos' = updatePositions(rows, pos)
    /\ last' = Ran("dragend", "none")
    /\ UNCHANGED <<rendered, rows, removeUrl, removeReqs, flows, addBtnDisabled,
                   reloadCalls, unloaded, input, ixVars>>

\* variant: every drag-over also renumbers the position fields
DragOver_renumbers(y) ==
    /\ Alive
    /\ LET after == getDragAfterElement(rows, cls, y)
           dragging == Dragging(rows, cls)
       IN rows' = IF dragging = NULL THEN rows
                  ELSE IF after = NULL THEN appendChild(rows, dragging)
                  ELSE insertBefore(rows, dragging, after)
    /\ pos' = updatePositions(rows', pos)
    /\ last' = Ran("dragover", "none")
    /\ UNCHANGED <<rendered, cls, dragEl, removeUrl, removeReqs, flows,
                   addBtnDisabled, reloadCalls, unloaded, input, ixVars>>

\* variant: reduce is called without an initial value and throws on no rows
DragOver_noInitial(y) ==
    /\ Alive
    /\ LET after == getDragAfterElement(rows, cls, y)
           dragging == Dragging(rows, cls)
           threw == \A i \in 1..Len(rows) : rows[i] \in cls
       IN /\ rows' = IF threw \/ dragging = NULL THEN rows
                     ELSE IF after = NULL THEN appendChild(rows, dragging)
                     ELSE insertBefore(rows, dragging, after)
          /\ last' = Ran("dragover", IF threw THEN "uncaught" ELSE "none")
    /\ UNCHANGED <<rendered, pos, cls, dragEl, removeUrl, removeReqs, flows,
                   addBtnDisabled, reloadCalls, unloaded, input, ixVars>>

DragOver(y) ==
    /\ Alive
    /\ LET after == getDragAfterElement(rows, cls, y)
           dragging == Dragging(rows, cls)
       IN rows' = IF dragging = NULL THEN rows
                  ELSE IF after = NULL THEN appendChild(rows, dragging)
                  ELSE insertBefore(rows, dragging, after)
    /\ last' = Ran("dragover", "none")
    /\ UNCHANGED <<rendered, pos, cls, dragEl, removeUrl, removeReqs, flows,
                   addBtnDisabled, reloadCalls, unloaded, input, ixVars>>

\* variant: the answer to the dialog is ignored
ClickRemove_noConfirm(t, confirmed) ==
    /\ Alive
    /\ IF t = NULL
       THEN /\ last' = Ran("click", "none")
            /\ UNCHANGED removeReqs
       ELSE IF ~removeUrl
       THEN /\ last' = Ran("click", "alert")
            /\ UNCHANGED removeReqs
       ELSE /\ Len(removeReqs) < MaxRemoveReqs
            /\ removeReqs' = Append(removeReqs, t)
            /\ last' = Ran(IF confirmed THEN "confirm" ELSE "cancel", "none")
    /\ UNCHANGED <<rendered, rows, pos, cls, dragEl, removeUrl, flows,
                   addBtnDisabled, reloadCalls, unloaded, input, ixVars>>

\* click in the table body; t is the row of the [data-remove] button hit,
\* confirmed is the answer the user gives if the dialog is shown
ClickRemove(t, confirmed) ==
    /\ Alive
    /\ IF t = NULL
       THEN /\ last' = Ran("click", "none")
            /\ UNCHANGED removeReqs
       ELSE IF ~removeUrl
       THEN /\ last' = Ran("click", "alert")
            /\ UNCHANGED removeReqs
       ELSE IF ~confirmed
       THEN /\ last' = Ran("cancel", "none")
            /\ UNCHANGED removeReqs
       ELSE /\ Len(removeReqs) < MaxRemoveReqs
            /\ removeReqs' = Append(removeReqs, t)
            /\ last' = Ran("confirm", "none")
    /\ UNCHANGED <<rendered, rows, pos, cls, dragEl, removeUrl, flows,
                   addBtnDisabled, reloadCalls, unloaded, input, ixVars>>

\* variant: res.ok is not looked at
RemoveResponse_reloadAlways(i, o) ==
    /\ Alive
    /\ i \in 1..Len(removeReqs)
    /\ removeReqs' = RemoveAt(removeReqs, i)
    /\ IF o = "ok"
       THEN /\ last' = Ran("removed", "reload")
            /\ reloadCalls' = reloadCalls \cup {"remove"}
       ELSE IF o = "fail"
       THEN /\ last' = Ran("removeRejected", "reload")
            /\ reloadCalls' = reloadCalls \cup {"remove"}
       ELSE /\ last' = Ran("removeNetErr", "uncaught")
            /\ UNCHANGED reloadCalls
    /\ UNCHANGED <<rendered, rows, pos, cls, dragEl, removeUrl, flows,
                   addBtnDisabled, unloaded, input, ixVars>>

\* the removal fetch number i settles and the click handler resumes
RemoveResponse(i, o) ==
    /\ Alive
    /\ i \in 1..Len(removeReqs)
    /\ removeReqs' = RemoveAt(removeReqs, i)
    /\ IF o = "ok"
       THEN /\ last' = Ran("removed", "reload")
            /\ reloadCalls' = reloadCalls \cup {"remove"}
       ELSE IF o = "fail"
       THEN /\ last' = Ran("removeRejected", "alert")
            /\ UNCHANGED reloadCalls
       ELSE \* no try around the await: the handler's promise rejects unhandled
            /\ last' = Ran("removeNetErr", "uncaught")
            /\ UNCHANGED reloadCalls
    /\ UNCHANGED <<rendered, rows, pos, cls, dragEl, removeUrl, flows,
                   addBtnDisabled, unloaded, input, ixVars>>

\* variant: the positions are not re-derived before the form is sent
Submit_noUpdate ==
    /\ Alive
    /\ ~addBtnDisabled
    /\ Len(flows) < MaxFlows
    /\ addBtnDisabled' = TRUE
    /\ flows' = Append(flows, [stage |-> "save", body |-> FormPositions(rows, pos)])
    /\ last' = Ran("submit", "none")
    /\ UNCHANGED <<rendered, rows, pos, cls, dragEl, removeUrl, removeReqs,
                   reloadCalls, unloaded, input, ixVars>>

\* variant: the submit button is left enabled
Submit_noDisable ==
    /\ Alive
    /\ ~addBtnDisabled
    /\ Len(flows) < MaxFlows
    /\ pos' = updatePositions(rows, pos)
    /\ flows' = Append(flows, [stage |-> "save", body |-> FormPositions(rows, pos')])
    /\ last' = Ran("submit", "none")
    /\ UNCHANGED <<rendered, rows, cls, dragEl, removeUrl, removeReqs, reloadCalls,
                   unloaded, input, addBtnDisabled, ixVars>>

\* submit of form.add-exercise-form; a disabled submit button submits nothing
Submit ==
    /\ Alive
    /\ ~addBtnDisabled
    /\ Len(flows) < MaxFlows
    /\ pos' = updatePositions(rows, pos)
    /\ addBtnDisabled' = TRUE
    /\ flows' = Append(flows, [stage |-> "save", body |-> FormPositions(rows, pos')])
    /\ last' = Ran("submit", "none")
    /\ UNCHANGED <<rendered, rows, cls, dragEl, removeUrl, removeReqs, reloadCalls,
                   unloaded, input, ixVars>>

\* variant: saveRes.ok is not looked at
SaveResponse_ignoreStatus(i, o) ==
    /\ Alive
    /\ i \in 1..Len(flows)
    /\ flows[i].stage = "save"
    /\ IF o # "neterr"
       THEN /\ flows' = [flows EXCEPT ![i].stage = "add"]
            /\ last' = Ran(IF o = "ok" THEN "saved" ELSE "saveRejected", "none")
            /\ UNCHANGED addBtnDisabled
       ELSE /\ flows' = RemoveAt(flows, i)
            /\ last' = Ran("saveNetErr", "alert")
            /\ addBtnDisabled' = FALSE
    /\ UNCHANGED <<rendered, rows, pos, cls, dragEl, removeUrl, removeReqs,
                   reloadCalls, unloaded, input, ixVars>>

\* the save fetch of run i settles
SaveResponse(i, o) ==
    /\ Alive
    /\ i \in 1..Len(flows)
    /\ flows[i].stage = "save"
    /\ IF o = "ok"
       THEN /\ flows' = [flows EXCEPT ![i].stage = "add"]
            /\ last' = Ran("saved", "none")
            /\ UNCHANGED addBtnDisabled
       ELSE /\ flows' = RemoveAt(flows, i)
            /\ last' = Ran(IF o = "fail" THEN "saveRejected" ELSE "saveNetErr", "alert")
            /\ addBtnDisabled' = FALSE
    /\ UNCHANGED <<rendered, rows, pos, cls, dragEl, removeUrl, removeReqs,
                   reloadCalls, unloaded, input, ixVars>>

\* variant: the button is re-enabled after the try block, not in a finally
AddResponse_noFinally(i, o) ==
    /\ Alive
    /\ i \in 1..Len(flows)
    /\ flows[i].stage = "add"
    /\ flows' = RemoveAt(flows, i)
    /\ IF o = "ok"
       THEN /\ last' = Ran("added", "reload")
            /\ reloadCalls' = reloadCalls \cup {"add"}
       ELSE /\ last' = Ran(IF o = "fail" THEN "addRejected" ELSE "addNetErr", "alert")
            /\ UNCHANGED reloadCalls
    /\ addBtnDisabled' = (o = "fail")
    /\ UNCHANGED <<rendered, rows, pos, cls, dragEl, removeUrl, removeReqs,
                   unloaded, input, ixVars>>

\* the add fetch of run i settles
AddResponse(i, o) ==
    /\ Alive
    /\ i \in 1..Len(flows)
    /\ flows[i].stage = "add"
    /\ flows' = RemoveAt(flows, i)
    /\ IF o = "ok"
       THEN /\ last' = Ran("added", "reload")
            /\ reloadCalls' = reloadCalls \cup {"add"}
       ELSE /\ last' = Ran(IF o = "fail" THEN "addRejected" ELSE "addNetErr", "alert")
            /\ UNCHANGED reloadCalls
    /\ addBtnDisabled' = FALSE
    /\ UNCHANGED <<rendered, rows, pos, cls, dragEl, removeUrl, removeReqs,
                   unloaded, input, ixVars>>

\* the navigation started by location.reload() replaces the page: the document,
\* the script's variables and the requests in flight are gone
Unload ==
    /\ Alive
    /\ reloadCalls # {}
    /\ unloaded' = TRUE
    /\ rendered' = {}
    /\ rows' = <<>>
    /\ pos' = <<>>
    /\ cls' = {}
    /\ dragEl' = NULL
    /\ removeUrl' = FALSE
    /\ removeReqs' = <<>>
    /\ flows' = <<>>
    /\ addBtnDisabled' = FALSE
    /\ last' = Ran("unload", "none")
    /\ UNCHANGED <<reloadCalls, input, ixVars>>

\* ------------------------------------------------------------ record.js
\* el.value is a string: a number, the empty string, or some other text
Num(n) == [kind |-> "num", n |-> n]
Empty == [kind |-> "empty", n |-> 0]
Text == [kind |-> "text", n |-> 0]
Typed == {Num(n) : n \in (0 - MinTyped)..MaxTyped} \cup {Empty, Text}

\* el.name, as a sequence of its parts
SetsSuffix == <<"[sets]">>
Names == { <<"exercises", "[1]", "[sets]">>, <<"exercises", "[1]", "[reps]">>,
           <<"[sets]", "note">>, <<"sets">>, <<>> }

\* String.prototype.endsWith
endsWith(str, suffix) ==
    /\ Len(str) >= Len(suffix)
    /\ SubSeq(str, Len(str) - Len(suffix) + 1, Len(str)) = suffix

\* Number(el.value || 0): the empty string counts as 0, other text is NaN
Number(v) ==
    IF v.kind = "text" THEN [nan |-> TRUE, n |-> 0]
    ELSE IF v.kind = "empty" THEN [nan |-> FALSE, n |-> 0]
    ELSE [nan |-> FALSE, n |-> v.n]

SetsMin == 0
SetsMax == 99

\* variant: the upper test is missing
clampSets_noUpper(value) ==
    LET v == Number(value)
    IN IF ~v.nan /\ v.n < SetsMin THEN Num(SetsMin) ELSE value

\* if (v < 0) el.value = 0; if (v > 99) el.value = 99; a test on NaN is false
clampSets(value) ==
    LET v == Number(value)
        v1 == IF ~v.nan /\ v.n < SetsMin THEN Num(SetsMin) ELSE value
    IN IF ~v.nan /\ v.n > SetsMax THEN Num(SetsMax) ELSE v1

\* the user changes the input named name to the text typed; the listener runs
InputEvent(name, typed) ==
    /\ input' = [name |-> name, typed |-> typed,
                 value |-> IF name # <<>> /\ endsWith(name, SetsSuffix)
                           THEN clampSets(typed) ELSE typed]
    /\ last' = Ran("input", "none")
    /\ UNCHANGED <<rendered, rows, pos, cls, dragEl, removeUrl, removeReqs, flows,
                   addBtnDisabled, reloadCalls, unloaded, ixVars>>

NoInput == [name |-> <<>>, typed |-> Empty, value |-> Empty]

\* ------------------------------------------------------------ index.js
Plans == 1..NumPlans

\* window.location.href has not been assigned
NoNav == [to |-> "none", plan |-> NULL]

\* const selId = () => (list && list.value ? list.value : null)
selId(value) == IF value # NULL THEN value ELSE NULL

\* variant: the button is disabled when a plan is selected
updateRecordButton_inverted(value) == selId(value) # NULL

\* btnRecord.disabled = !hasSel
updateRecordButton(value) == ~(selId(value) # NULL)

\* change event of the list: the user selects plan v, or nothing
ListChange(v) ==
    /\ Alive
    /\ sel' = v
    /\ btnRecordDisabled' = updateRecordButton(v)
    /\ last' = Ran("change", "none")
    /\ UNCHANGED <<editVars, reloadCalls, unloaded, newSessionUrl, createUrl,
                   planReqs, nav>>

\* click on btnRecord
ClickRecord ==
    /\ Alive
    /\ IF selId(sel) = NULL \/ ~newSessionUrl
       THEN /\ last' = Ran("record", "none")
            /\ UNCHANGED nav
       ELSE /\ nav' = [to |-> "session", plan |-> selId(sel)]
            /\ last' = Ran("record", "navigate")
    /\ UNCHANGED <<editVars, reloadCalls, unloaded, sel, btnRecordDisabled,
                   newSessionUrl, createUrl, planReqs>>

\* variant: the selection is not tested before the dialog
ClickDelete_noSelCheck(confirmed) ==
    /\ Alive
    /\ IF ~confirmed
       THEN /\ last' = Ran("deleteCancel", "none")
            /\ UNCHANGED planReqs
       ELSE /\ Len(planReqs) < MaxPlanReqs
            /\ planReqs' = Append(planReqs, [kind |-> "delete", plan |-> selId(sel)])
            /\ last' = Ran("deleteConfirm", "none")
    /\ UNCHANGED <<editVars, reloadCalls, unloaded, sel, btnRecordDisabled,
                   newSessionUrl, createUrl, nav>>

\* click on btnDelete; confirmed is the answer if the dialog is shown
ClickDelete(confirmed) ==
    /\ Alive
    /\ IF selId(sel) = NULL
       THEN /\ last' = Ran("deleteNoSel", "alert")
            /\ UNCHANGED planReqs
       ELSE IF ~confirmed
       THEN /\ last' = Ran("deleteCancel", "none")
            /\ UNCHANGED planReqs
       ELSE /\ Len(planReqs) < MaxPlanReqs
            /\ planReqs' = Append(planReqs, [kind |-> "delete", plan |-> selId(sel)])
            /\ last' = Ran("deleteConfirm", "none")
    /\ UNCHANGED <<editVars, reloadCalls, unloaded, sel, btnRecordDisabled,
                   newSessionUrl, createUrl, nav>>

\* the deletion fetch number i settles
DeleteResponse(i, o) ==
    /\ Alive
    /\ i \in 1..Len(planReqs)
    /\ planReqs[i].kind = "delete"
    /\ planReqs' = RemoveAt(planReqs, i)
    /\ IF o = "ok"
       THEN /\ last' = Ran("deleted", "reload")
            /\ reloadCalls' = reloadCalls \cup {"delete"}
       ELSE /\ last' = Ran(IF o = "fail" THEN "deleteRejected" ELSE "deleteNetErr", "alert")
            /\ UNCHANGED reloadCalls
    /\ UNCHANGED <<editVars, unloaded, sel, btnRecordDisabled, newSessionUrl,
                   createUrl, nav>>

\* click on btnAdd; named: the prompt returned a name that is not blank
ClickAdd(named) ==
    /\ Alive
    /\ IF ~named
       THEN /\ last' = Ran("addNoName", "none")
            /\ UNCHANGED planReqs
       ELSE IF ~createUrl
       THEN /\ last' = Ran("addNoUrl", "none")
            /\ UNCHANGED planReqs
       ELSE /\ Len(planReqs) < MaxPlanReqs
            /\ planReqs' = Append(planReqs, [kind |-> "create", plan |-> NULL])
            /\ last' = Ran("addSent", "none")
    /\ UNCHANGED <<editVars, reloadCalls, unloaded, sel, btnRecordDisabled,
                   newSessionUrl, createUrl, nav>>

\* the creation fetch number i settles; redirected is res.redirected.
\* res.ok is never read: every response leads to a navigation or a reload
CreateResponse(i, o, redirected) ==
    /\ Alive
    /\ i \in 1..Len(planReqs)
    /\ planReqs[i].kind = "create"
    /\ planReqs' = RemoveAt(planReqs, i)
    /\ IF o = "neterr"
       THEN /\ last' = Ran("createNetErr", "alert")
            /\ UNCHANGED <<reloadCalls, nav>>
       ELSE IF redirected
       THEN /\ last' = Ran(IF o = "ok" THEN "created" ELSE "createRejected", "navigate")
            /\ nav' = [to |-> "res.url", plan |-> NULL]
            /\ UNCHANGED reloadCalls
       ELSE /\ last' = Ran(IF o = "ok" THEN "created" ELSE "createRejected", "reload")
            /\ reloadCalls' = reloadCalls \cup {"create"}
            /\ UNCHANGED nav
    /\ UNCHANGED <<editVars, unloaded, sel, btnRecordDisabled, newSessionUrl,
                   createUrl>>

\* the reload or navigation the page asked for replaces it
LeaveIndex ==
    /\ Alive
    /\ reloadCalls # {} \/ nav # NoNav
    /\ unloaded' = TRUE
    /\ sel' = NULL
    /\ btnRecordDisabled' = TRUE
    /\ newSessionUrl' = FALSE
    /\ createUrl' = FALSE
    /\ planReqs' = <<>>
    /\ last' = Ran("leave", "none")
    /\ UNCHANGED <<editVars, reloadCalls, nav>>

\* a page without the plan list
NoIndex ==
    /\ sel = NULL
    /\ btnRecordDisabled = FALSE
    /\ newSessionUrl = FALSE
    /\ createUrl = FALSE
    /\ planReqs = <<>>
    /\ nav = NoNav

\* the page as the script finds it, after the updatePositions() of line 114
Init ==
    /\ \E n \in 0..NumRows :
          /\ rendered = 1..n
          /\ rows = InitialRows(n)
          /\ pos = updatePositions(InitialRows(n), [r \in 1..n |-> 0])
    /\ cls = {}
    /\ dragEl = NULL
    /\ removeUrl \in BOOLEAN
    /\ removeReqs = <<>>
    /\ flows = <<>>
    /\ addBtnDisabled = FALSE
    /\ last = Ran("init", "none")
    /\ reloadCalls = {}
    /\ unloaded = FALSE
    /\ input = NoInput
    /\ NoIndex

DragSteps ==
    \/ \E t \in Targets : DragStart(t)
    \/ \E y \in Ys : DragOver(y)
    \/ DragEnd

RemoveSteps ==
    \/ \E t \in Targets, confirmed \in BOOLEAN : ClickRemove(t, confirmed)
    \/ \E i \in 1..MaxRemoveReqs, o \in Outcomes : RemoveResponse(i, o)

AddSteps ==
    \/ Submit
    \/ \E i \in 1..MaxFlows, o \in Outcomes : SaveResponse(i, o)
    \/ \E i \in 1..MaxFlows, o \in Outcomes : AddResponse(i, o)

\* the plan editor
Next == DragSteps \/ RemoveSteps \/ AddSteps \/ Unload

Spec == Init /\ [][Next]_vars

\* the reorderable table and the submit handler that re-derives its positions
\* (the requests of the submission stay in flight)
NextDnd == DragSteps \/ Submit

SpecDnd == Init /\ [][NextDnd]_vars

\* the two request flows of the plan editor
NextNet == RemoveSteps \/ AddSteps \/ Unload

SpecNet == Init /\ [][NextNet]_vars

\* the recording page: no table, only inputs
InitRecord ==
    /\ rendered = {}
    /\ rows = <<>>
    /\ pos = <<>>
    /\ cls = {}
    /\ dragEl = NULL
    /\ removeUrl = FALSE
    /\ removeReqs = <<>>
    /\ flows = <<>>
    /\ addBtnDisabled = FALSE
    /\ last = Ran("init", "none")
    /\ reloadCalls = {}
    /\ unloaded = FALSE
    /\ input = NoInput
    /\ NoIndex

NextRecord == \E name \in Names, typed \in Typed : InputEvent(name, typed)

SpecRecord == InitRecord /\ [][NextRecord]_vars

\* the start page, after the updateRecordButton() of line 17
InitIndex ==
    /\ rendered = {}
    /\ rows = <<>>
    /\ pos = <<>>
    /\ cls = {}
    /\ dragEl = NULL
    /\ removeUrl = FALSE
    /\ removeReqs = <<>>
    /\ flows = <<>>
    /\ addBtnDisabled = FALSE
    /\ last = Ran("init", "none")
    /\ reloadCalls = {}
    /\ unloaded = FALSE
    /\ input = NoInput
    /\ sel \in Plans \cup {NULL}
    /\ btnRecordDisabled = updateRecordButton(sel)
    /\ newSessionUrl \in BOOLEAN
    /\ createUrl \in BOOLEAN
    /\ planReqs = <<>>
    /\ nav = NoNav

NextIndex ==
    \/ \E v \in Plans \cup {NULL} : ListChange(v)
    \/ ClickRecord
    \/ \E confirmed \in BOOLEAN : ClickDelete(confirmed)
    \/ \E i \in 1..MaxPlanReqs, o \in Outcomes : DeleteResponse(i, o)
    \/ \E named \in BOOLEAN : ClickAdd(named)
    \/ \E i \in 1..MaxPlanReqs, o \in Outcomes, redirected \in BOOLEAN :
          CreateResponse(i, o, redirected)
    \/ LeaveIndex

SpecIndex == InitIndex /\ [][NextIndex]_vars

\* ============================================================ properties
Ids(rs) == {rs[i] : i \in 1..Len(rs)}

\* the position fields read top to bottom are 1, 2, ..., N
InSync(rs, p) == \A i \in 1..Len(rs) : p[rs[i]] = i

\* twice the vertical midpoint of row r
Mid2(rs, r) == 2 * BoxTop(rs, r) + RowHeight(r)

\* the first row from the top, other than d, whose midpoint lies below y
FirstBelow(rs, d, y) ==
    LET below == {i \in 1..Len(rs) : rs[i] # d /\ Mid2(rs, rs[i]) > 2 * y}
    IN IF below = {} THEN NULL
       ELSE rs[CHOOSE i \in below : \A j \in below : i <= j]

\* in rs2 the row d sits immediately before t (at the end if t is NULL) and
\* the other rows are where they were in rs1
SitsBefore(rs1, rs2, d, t) ==
    /\ Without(rs2, d) = Without(rs1, d)
    /\ Len(rs2) = Len(rs1)
    /\ IF t = NULL THEN rs2[Len(rs2)] = d
       ELSE \E i \in 1..(Len(rs2) - 1) : rs2[i] = d /\ rs2[i + 1] = t

\* C1: after each end-drag the rows are the rendered rows, each once (none
\* created, none destroyed), and the position fields read top to bottom are
\* exactly 1, 2, ..., N, so that no two rows share a position.
C1_EndDragKeepsRowsAndNumbersThem ==
    last.ev = "dragend" =>
        /\ Ids(rows) = rendered
        /\ Len(rows) = Cardinality(rendered)
        /\ InSync(rows, pos)
        /\ \A r1, r2 \in rendered : pos[r1] = pos[r2] => r1 = r2

\* a drag that changed the order of a full table has ended
C1_Witness ==
    /\ last.ev = "dragend"
    /\ Len(rows) = NumRows
    /\ rows # InitialRows(NumRows)

\* C8: a drag-over at pointer height y, with one row in motion, moves that row
\* to sit immediately before the first row from the top, other than itself,
\* whose vertical midpoint lies below y, and to the end if there is no such
\* row.  From [A, B, C], dragging C above A's midpoint gives [C, A, B], and the
\* end-drag numbers it 1, 2, 3.
C8_DragOverPlacesRow ==
    [][ /\ last'.ev = "dragover" =>
              \A d \in cls : \A y \in Ys :
                  (cls = {d} /\ DragOver(y)) =>
                      SitsBefore(rows, rows', d, FirstBelow(rows, d, y))
        /\ (rows = <<1, 2, 3>> /\ cls = {3} /\ DragOver(0)) => rows' = <<3, 1, 2>>
        /\ (rows = <<3, 1, 2>> /\ DragEnd) => (pos'[3] = 1 /\ pos'[1] = 2 /\ pos'[2] = 3)
      ]_vars

\* C dragged from [A, B, C] to before A and dropped
C8_Witness ==
    /\ last.ev = "dragend"
    /\ rows = <<3, 1, 2>>
    /\ pos[3] = 1 /\ pos[1] = 2 /\ pos[2] = 3

\* C9: with the positions reading 1..N top to bottom, a begin-drag of a row
\* followed at once by the end-drag leaves the row order and every position
\* value as they were.
C9_NullReorderIsIdentity ==
    [][ (last.ev = "dragstart" /\ last'.ev = "dragend" /\ InSync(rows, pos))
            => (rows' = rows /\ pos' = pos) ]_vars

\* a row of a full table is in motion and nothing has moved since its begin-drag
C9_Witness ==
    /\ last.ev = "dragstart"
    /\ dragEl # NULL
    /\ Len(rows) = NumRows
    /\ InSync(rows, pos)

\* C2: a removal request is sent exactly by the handler run in which the user
\* confirms the dialog; a run in which the user cancels sends nothing and
\* changes neither the row order nor any position value.
C2_RemovalSentIffConfirmed ==
    [][ /\ (Len(removeReqs') > Len(removeReqs)) <=> (last'.ev = "confirm")
        /\ last'.ev = "confirm" => Len(removeReqs') = Len(removeReqs) + 1
        /\ last'.ev = "cancel" =>
              /\ removeReqs' = removeReqs
              /\ flows' = flows
              /\ rows' = rows
              /\ pos' = pos
      ]_vars

\* the user confirmed and the removal request of a row is in flight
C2_Witness ==
    /\ last.ev = "confirm"
    /\ Len(removeReqs) = 1
    /\ removeReqs[1] \in rendered

\* C3 (as claimed): a removal whose request fails in the network is reported
\* by an alert, like a rejected one, with no reload.
C3_NetworkFailureAlerts ==
    last.ev = "removeNetErr" => last.out = "alert"

\* C4: a success response to a removal makes the handler call one reload; a
\* non-success response makes it show an alert and call no reload, and its
\* run leaves the rows, their order and the position values as they were.
C4_RemovalResponse ==
    [][ /\ last'.ev = "removed" =>
              /\ last'.out = "reload"
              /\ reloadCalls' = reloadCalls \cup {"remove"}
        /\ last'.ev = "removeRejected" =>
              /\ last'.out = "alert"
              /\ reloadCalls' = reloadCalls
              /\ rendered' = rendered
              /\ rows' = rows
              /\ pos' = pos
      ]_vars

\* a removal was rejected by the server
C4_Witness ==
    /\ last.ev = "removeRejected"
    /\ last.out = "alert"
    /\ Len(rows) = NumRows

AddsInFlight(fs) == Cardinality({i \in 1..Len(fs) : fs[i].stage = "add"})
SavesInFlight(fs) == Cardinality({i \in 1..Len(fs) : fs[i].stage = "save"})

\* C5: an add request is issued only by the run that resumes on a save
\* response with a success status; a run that resumes on a failed save
\* (non-success status or network error) ends the submission with no add
\* request and no reload.
C5_AddOnlyAfterSavedOk ==
    [][ /\ AddsInFlight(flows') > AddsInFlight(flows) =>
              /\ last'.ev = "saved"
              /\ SavesInFlight(flows') = SavesInFlight(flows) - 1
              /\ AddsInFlight(flows') = AddsInFlight(flows) + 1
        /\ last'.ev \in {"saveRejected", "saveNetErr"} =>
              /\ AddsInFlight(flows') = AddsInFlight(flows)
              /\ Len(flows') = Len(flows) - 1
              /\ last'.out = "alert"
              /\ reloadCalls' = reloadCalls
      ]_vars

\* a save failed in the network: the submission is over, nothing is in flight
C5_Witness ==
    /\ last.ev = "saveNetErr"
    /\ flows = <<>>
    /\ reloadCalls = {}

\* C6 (as claimed): no two submissions are in flight, the button is disabled
\* while one is, and none starts while the reload called by an earlier one is
\* still to replace the page.
C6_NoSecondFlowBeforeOutcome ==
    /\ Len(flows) <= 1
    /\ flows # <<>> => addBtnDisabled
    /\ last.ev = "submit" => "add" \notin reloadCalls

\* C6 (amended): the submit button is disabled exactly while a submission is
\* in flight, from its start to the end of the run that shows its alert or
\* calls its reload, so that at most one submission, hence at most one save
\* or add request, is in flight at any time.
C6_OneFlowAtATime ==
    /\ Len(flows) <= 1
    /\ addBtnDisabled <=> flows # <<>>
    /\ last.ev = "submit" => (Len(flows) = 1 /\ flows[1].stage = "save")

\* a submission is waiting for the answer to its add request
C6_Witness ==
    /\ Len(flows) = 1
    /\ flows[1].stage = "add"
    /\ addBtnDisabled

\* C7: the submit button is disabled whenever a request of the submission is
\* pending, and the run that resumes when the last request of the submission
\* settles re-enables it: save rejected, save or add failed in the network,
\* add rejected, and success.
C7_ButtonFollowsFlow ==
    [][ /\ flows' # <<>> => addBtnDisabled'
        /\ last'.ev \in {"saveRejected", "saveNetErr", "addRejected", "addNetErr", "added"}
              => (~addBtnDisabled' /\ flows' = <<>>)
        /\ last'.ev \in {"submit", "saved"} => addBtnDisabled'
      ]_vars

\* the add request failed in the network and the button is enabled again
C7_Witness ==
    /\ last.ev = "addNetErr"
    /\ ~addBtnDisabled

\* C10: after an input event on a field whose name ends in [sets], a number
\* below 0 has become 0, a number above 99 has become 99 and a number in
\* 0..99 (or the empty field, which counts as 0) is as typed; a field whose
\* name does not end in [sets] is as typed.
C10_SetsClamped ==
    LET isSets == Len(input.name) > 0 /\ input.name[Len(input.name)] = "[sets]"
        n == input.typed.n
    IN /\ (isSets /\ input.typed.kind = "num") =>
              /\ input.value.kind = "num"
              /\ input.value.n \in 0..99
              /\ n < 0 => input.value.n = 0
              /\ n > 99 => input.value.n = 99
              /\ n \in 0..99 => input.value.n = n
       /\ (isSets /\ input.typed.kind = "empty") => input.value = input.typed
       /\ ~isSets => input.value = input.typed

\* 150 was typed into a sets field
C10_Witness ==
    /\ input.name = <<"exercises", "[1]", "[sets]">>
    /\ input.typed = Num(150)
    /\ input.value = Num(99)

\* C11: for the plan-deletion and the plan-creation request, a network
\* failure and a server-rejected request are handled alike: the handler
\* run that sees the failure shows an alert, calls no reload, assigns no
\* new address and sends no further request.
C11_PlanRequestFailuresAlert ==
    [][ last'.ev \in {"deleteRejected", "deleteNetErr", "createRejected", "createNetErr"}
            => /\ last'.out = "alert"
               /\ reloadCalls' = reloadCalls
               /\ nav' = nav
               /\ Len(planReqs') < Len(planReqs) ]_vars

\* C12: a begin-drag changes neither the row order nor any position value, a
\* drag-over changes nothing but the row order, and a position value changes
\* only in an end-drag or in the submit of the save-then-add flow: none
\* changes between a begin-drag and the following end-drag unless a submit
\* occurs in between.
C12_OnlyEndDragAndSubmitRenumber ==
    [][ /\ last'.ev = "dragstart" => (rows' = rows /\ pos' = pos)
        /\ last'.ev = "dragover" => (pos' = pos /\ cls' = cls /\ dragEl' = dragEl)
        /\ pos' # pos => last'.ev \in {"dragend", "submit"}
      ]_vars

\* a drag-over has changed the order and the positions still read the old one
C12_Witness ==
    /\ last.ev = "dragover"
    /\ dragEl # NULL
    /\ Len(rows) = NumRows
    /\ rows # InitialRows(NumRows)
    /\ pos = [r \in rendered |-> r]
    /\ flows = <<>>

\* C13: in every state the row sequence holds each rendered row once, none
\* twice and none missing, and a drag-over moves one row in motion only: the
\* rows other than it keep their relative order (with a single row in motion,
\* that one).
C13_RowsStayAPermutation ==
    [][ /\ Ids(rows') = rendered'
        /\ Len(rows') = Cardinality(rendered')
        /\ last'.ev = "dragover" =>
              /\ cls = {} => rows' = rows
              /\ \A d \in cls : cls = {d} => Without(rows', d) = Without(rows, d)
              /\ rows' # rows => \E d \in cls : Without(rows', d) = Without(rows, d)
      ]_vars

\* a row was dragged down and then up again and sits in a new place
C13_Witness ==
    /\ last.ev = "dragover"
    /\ Cardinality(cls) = 1
    /\ Len(rows) = NumRows
    /\ rows # InitialRows(NumRows)
    /\ Ids(rows) = rendered

\* the row in motion, if any, is the one row that carries the flag
FlagMatchesRef == cls = (IF dragEl = NULL THEN {} ELSE {dragEl})

\* C14 (as claimed): in every state at most one row carries the in-motion
\* flag, a row carries it exactly when dragEl holds it, and after every
\* end-drag no row carries it and dragEl is cleared, whatever the sequence of
\* drag events.
C14_FlagLifecycle ==
    /\ Cardinality(cls) <= 1
    /\ FlagMatchesRef
    /\ last.ev = "dragend" => (cls = {} /\ dragEl = NULL)

\* C14 (amended): every end-drag clears dragEl; as long as no begin-drag of
\* another row arrives while a row is in motion, at most one row carries the
\* flag, it is the row dragEl holds, and after the end-drag no row carries it.
C14_FlagLifecycleOfPairedDrags ==
    [][ /\ last'.ev = "dragend" => dragEl' = NULL
        /\ (FlagMatchesRef /\ ~(last'.ev = "dragstart" /\ dragEl # NULL /\ dragEl' # dragEl))
              => /\ FlagMatchesRef'
                 /\ Cardinality(cls') <= 1
                 /\ last'.ev = "dragend" => cls' = {}
      ]_vars

\* a drag that moved a row has ended and no row carries the flag
C14_Witness ==
    /\ last.ev = "dragend"
    /\ cls = {}
    /\ dragEl = NULL
    /\ Len(rows) = NumRows
    /\ rows # InitialRows(NumRows)

\* C15: in a table that holds only the row in motion, a drag-over raises no
\* error and leaves the row order as it is, and the end-drag sets the row's
\* position to 1.
C15_SingleRowDrag ==
    [][ (Len(rows) = 1 /\ cls = {rows[1]}) =>
            /\ last'.ev = "dragover" => (rows' = rows /\ last'.out = "none")
            /\ last'.ev = "dragend" => (rows' = rows /\ pos'[rows[1]] = 1)
      ]_vars

\* the only row of a table is in motion and a drag-over has run
C15_Witness ==
    /\ Len(rows) = 1
    /\ cls = {rows[1]}
    /\ dragEl = rows[1]
    /\ last.ev = "dragover"

\* C16: the form sent by the save request carries the positions 1, 2, ..., N
\* in top-to-bottom row order, and these are the rows' position values at
\* that moment, also when the submit comes in the middle of a drag.
C16_SaveCarriesFreshPositions ==
    last.ev = "submit" =>
        /\ flows # <<>>
        /\ LET body == flows[Len(flows)].body
           IN /\ Len(body) = Len(rows)
              /\ \A i \in 1..Len(rows) : body[i] = i /\ pos[rows[i]] = i

\* a submit in the middle of a drag that has changed the order
C16_Witness ==
    /\ last.ev = "submit"
    /\ dragEl # NULL
    /\ Len(rows) = NumRows
    /\ rows # InitialRows(NumRows)

\* C17: a deletion request is issued only by a click on the delete button
\* with a plan selected and the dialog confirmed, and it carries the id of
\* the selected plan; with no selection the click shows an alert, no
\* dialog and sends nothing; the deletion handler calls reload only in the
\* run that received a success response.
C17_DeletionNeedsSelectionAndConfirm ==
    [][ /\ last'.ev = "deleteConfirm"
            => /\ sel # NULL
               /\ planReqs' = Append(planReqs, [kind |-> "delete", plan |-> sel])
        /\ (\E i \in 1..Len(planReqs') :
                /\ planReqs'[i].kind = "delete"
                /\ (i > Len(planReqs) \/ planReqs[i] # planReqs'[i])
                /\ Len(planReqs') > Len(planReqs))
            => /\ last'.ev = "deleteConfirm"
               /\ planReqs'[Len(planReqs')].plan = sel
               /\ sel # NULL
        /\ (sel = NULL /\ last'.ev \in {"deleteNoSel", "deleteCancel", "deleteConfirm"})
            => /\ last' = Ran("deleteNoSel", "alert")
               /\ planReqs' = planReqs
        /\ (sel # NULL /\ last'.ev \in {"deleteCancel", "deleteNoSel"})
            => /\ last'.ev = "deleteCancel"
               /\ planReqs' = planReqs
        /\ "delete" \in reloadCalls' \ reloadCalls => last'.ev = "deleted"
        /\ last'.ev \in {"deleteRejected", "deleteNetErr"} => reloadCalls' = reloadCalls ]_vars

\* a confirmed deletion of the selected plan has been answered with success
C17_Witness ==
    /\ last = Ran("deleted", "reload")
    /\ "delete" \in reloadCalls
    /\ sel # NULL
    /\ planReqs = <<>>

\* C18: from initialisation on and after every change event the record
\* button is disabled exactly when no plan is selected, and a click on it
\* navigates only with a plan selected and a target address configured,
\* to the session of that plan.
C18_RecordButtonFollowsSelection ==
    /\ btnRecordDisabled <=> sel = NULL
    /\ (last.ev = "record" /\ last.out = "navigate")
            => /\ sel # NULL
               /\ newSessionUrl
               /\ nav = [to |-> "session", plan |-> sel]
    /\ nav.to = "session" => nav.plan \in Plans
    /\ last.ev = "record" => (last.out = "navigate" <=> (sel # NULL /\ newSessionUrl))

\* the last plan of the list is selected, the button is enabled and the
\* click has navigated to the new session of that plan
C18_Witness ==
    /\ last = Ran("record", "navigate")
    /\ ~btnRecordDisabled
    /\ nav.plan = NumPlans
    /\ sel = NumPlans

====
